---- MODULE Spec2Model ----
(***************************************************************************)
(* Pre-sale hold automation (chronosplit-next).                            *)
(*                                                                         *)
(* The commerce platform holds orders, fulfillment orders, line items and  *)
(* order tags.  The application holds one configuration row and an audit   *)
(* log.  Three handlers act on them: the order-creation webhook, the       *)
(* settings-save action and the release action.  The release action exists *)
(* in three revisions:                                                     *)
(*   "index"  src/app/routes/app._index.jsx  (release every held           *)
(*            fulfillment order, remove the tag without a re-check)        *)
(*   "split"  src/unnamed/part_003           (unlock, split, re-lock)      *)
(*   "audit"  src/unnamed/part_002           (the same, plus audit log)    *)
(* Every awaited platform call is one step of its handler.                 *)
(***************************************************************************)
EXTENDS Integers, Sequences, FiniteSets, TLC

VARIABLES
  rev,      \* the deployed revision of the release action
  config,   \* the shop's Configuration row: NoRow or a locationId
  fos,      \* platform: fulfillment orders, indexed by id
  tags,     \* platform: the tags of every order
  audit,    \* AuditLog rows, oldest first
  wh,       \* the webhook handler in flight
  rel,      \* the release action in flight
  runs,     \* handler invocations started so far
  faulted,  \* some platform mutation so far was not applied
  faults,   \* mutations so far that the platform failed without cause
  view,     \* what the loader returned to the page last
  rel2      \* a second release action, waiting at one of its calls

vars ==
  <<rev, config, fos, tags, audit, wh, rel, runs, faulted, faults, view, rel2>>

----------------------------------------------------------------------------
(* Bounds *)

MaxRuns == 2
MaxFaults == 1
MaxPad == 10

(* The shop *)

Revisions == {"index", "split", "audit"}
Locations == {"L1", "L2"}
NoRow     == "NO_ROW"
Orders    == {1, 2}
GhostOrder == 9
OrderName == [o \in Orders |-> IF o = 1 THEN "#1001" ELSE "#1002"]

(* Strings are sequences of characters. *)
Widget == <<"W", "i", "d", "g", "e", "t">>
Gadget == <<"G", "a", "d", "g", "e", "t">>
Empty  == <<>>

(* Fulfillment-order line items: id, remainingQuantity, lineItem (title or *)
(* null).                                                                  *)
NullItem == [isNull |-> TRUE, title |-> Empty]
Item(t)  == [isNull |-> FALSE, title |-> t]
LineNodes ==
  [l \in 1..4 |->
     CASE l = 1 -> [id |-> 1, remainingQuantity |-> 2, lineItem |-> Item(Widget)]
       [] l = 2 -> [id |-> 2, remainingQuantity |-> 1, lineItem |-> Item(Gadget)]
       [] l = 3 -> [id |-> 3, remainingQuantity |-> 1, lineItem |-> Item(Gadget)]
       [] l = 4 -> [id |-> 4, remainingQuantity |-> 3, lineItem |-> NullItem]]

(* The filter texts an operator types. *)
Filters == {Empty,
            <<"w", "i", "d", "g", "e", "t">>,
            <<"D", "G", "E", "T">>}

(* The marker tag as the source files spell it. *)
MarkerTag   == "WARNING-SIGN Pre-Sale Hold"
MojibakeTag == "MOJIBAKE-WARNING-SIGN Pre-Sale Hold"

HoldReason == "INVENTORY_OUT_OF_STOCK"

Outcomes == {"ok", "userErrors", "throw"}

----------------------------------------------------------------------------
(* String functions *)

LowerChar(c) ==
  CASE c = "W" -> "w" [] c = "G" -> "g" [] c = "D" -> "d"
    [] c = "E" -> "e" [] c = "T" -> "t" [] OTHER -> c

toLowerCase(s) == [k \in 1..Len(s) |-> LowerChar(s[k])]

includes(s, sub) ==
  \E k \in 0..(Len(s) - Len(sub)) : SubSeq(s, k + 1, k + Len(sub)) = sub

----------------------------------------------------------------------------
(* Sequence helpers *)

Range(s) == {s[k] : k \in 1..Len(s)}

RECURSIVE SelectIdx(_, _, _)
SelectIdx(s, keep, k) ==
  IF k > Len(s) THEN <<>>
  ELSE IF s[k] \in keep THEN <<s[k]>> \o SelectIdx(s, keep, k + 1)
       ELSE SelectIdx(s, keep, k + 1)

(* Array.prototype.filter with a membership test, order kept *)
Filter(s, keep) == SelectIdx(s, keep, 1)

(* Set.prototype.add on an insertion-ordered Set *)
SetAdd(s, x) == IF x \in Range(s) THEN s ELSE Append(s, x)

----------------------------------------------------------------------------
(* The commerce platform: queries *)

First(s, n) == SubSeq(s, 1, IF Len(s) < n THEN Len(s) ELSE n)

RECURSIVE IdsFrom(_, _, _)
IdsFrom(F, o, k) ==
  IF k > Len(F) THEN <<>>
  ELSE IF F[k].order = o THEN <<k>> \o IdsFrom(F, o, k + 1)
       ELSE IdsFrom(F, o, k + 1)

(* the ids of the fulfillment orders of order o, in platform order *)
FulfillmentOrderIds(F, o) == IdsFrom(F, o, 1)

(* one node of order.fulfillmentOrders.nodes *)
FoNode(F, f) ==
  [id |-> f, status |-> F[f].status, location |-> F[f].loc,
   lineItems |-> F[f].lines]

FoNodes(F, o, n) ==
  LET ids == First(FulfillmentOrderIds(F, o), n)
  IN  [k \in 1..Len(ids) |-> FoNode(F, ids[k])]

(* page sizes of the queries *)
WebhookFulfillmentOrdersFirst == 10
ActionFulfillmentOrdersFirst  == 5
CheckFulfillmentOrdersFirst   == 10
ActionOrdersFirst(r) == IF r = "index" THEN 250 ELSE 50

(* orders(first: n, query: "fulfillment_status:unfulfilled") of the action *)
RECURSIVE OrderNodesFrom(_, _, _)
OrderNodesFrom(F, r, o) ==
  IF o \notin Orders \/ o > ActionOrdersFirst(r) THEN <<>>
  ELSE <<[id |-> o, name |-> OrderName[o],
          fulfillmentOrders |-> FoNodes(F, o, ActionFulfillmentOrdersFirst)]>>
       \o OrderNodesFrom(F, r, o + 1)

HoldQuery(F, r) == OrderNodesFrom(F, r, 1)

----------------------------------------------------------------------------
(* The commerce platform: mutations.  A mutation answers "ok" (applied),   *)
(* "userErrors" (refused, nothing changed) or fails outright ("throw").    *)

CanHold(F, f)    == F[f].status = "OPEN"
CanRelease(F, f) == F[f].status = "ON_HOLD"
CanSplit(F, f, ids) ==
  /\ F[f].status = "OPEN"
  /\ ids # {}
  /\ ids \subseteq Range(F[f].lines)
  /\ ids # Range(F[f].lines)

ApplyHold(F, f)    == [F EXCEPT ![f].status = "ON_HOLD"]
ApplyRelease(F, f) == [F EXCEPT ![f].status = "OPEN"]
ApplySplit(F, f, ids) ==
  Append([F EXCEPT ![f].lines = Filter(@, Range(@) \ ids)],
         [order |-> F[f].order, loc |-> F[f].loc, status |-> "OPEN",
          lines |-> Filter(F[f].lines, ids)])

(* The answers the platform can give: it applies a mutation only when it   *)
(* can be applied, refuses with userErrors one that cannot, and may fail   *)
(* without cause (userErrors or a rejected call) MaxFaults times.          *)
Answers(can) ==
  {out \in Outcomes :
     CASE out = "ok" -> can
       [] out = "userErrors" -> ~can \/ faults < MaxFaults
       [] OTHER -> faults < MaxFaults}

Fault(out, can) == IF out = "throw" \/ (out = "userErrors" /\ can) THEN 1 ELSE 0

(* one entry of a handler's record of the mutations it issued *)
Call(op, f, o, lines, arg, out) ==
  [op |-> op, fo |-> f, order |-> o, lines |-> lines, arg |-> arg, out |-> out]

----------------------------------------------------------------------------
(* Handlers *)

IdleWh ==
  [pc |-> "idle", targetLocationId |-> "", payloadId |-> 0,
   fulfillmentOrders |-> <<>>, k |-> 0, holdApplied |-> FALSE,
   calls |-> <<>>, response |-> "none"]

IdleRel ==
  [pc |-> "idle", intent |-> "none", targetLocationId |-> "", filterText |-> Empty,
   targetOrderIds |-> {}, holdData |-> <<>>, i |-> 0, heldFulfillment |-> 0,
   linesToRelease |-> <<>>, releasedCount |-> 0, splitCount |-> 0,
   ordersToCheckForTagRemoval |-> <<>>, releasedOrderNames |-> <<>>,
   idsToRelease |-> <<>>, orderIdsToClean |-> <<>>, j |-> 0,
   calls |-> <<>>, status |-> "none", count |-> 0, repeat |-> FALSE]

Finished(h) == h.pc \in {"idle", "done", "failed"}

(* History: the request repeats the release action that returned just      *)
(* before it (same intent, location, filter and targets), every mutation   *)
(* of that action was applied, and it left none of its target orders with  *)
(* a fulfillment order ON_HOLD at the location.                            *)
Repeats(intent, targetLocationId, filterText, targetOrderIds) ==
  /\ rel.pc = "done"
  /\ rel.status = "success"
  /\ rel.intent = intent
  /\ rel.targetLocationId = targetLocationId
  /\ rel.filterText = filterText
  /\ rel.targetOrderIds = targetOrderIds
  /\ \E n \in 1..Len(rel.calls) : rel.calls[n].op = "releaseHold"
  /\ \A n \in 1..Len(rel.calls) : rel.calls[n].out = "ok"
  /\ \A f \in 1..Len(fos) :
       (fos[f].order \in targetOrderIds \/ intent = "release_all")
         => ~(fos[f].loc = targetLocationId /\ fos[f].status = "ON_HOLD")
Quiescent   == Finished(wh) /\ Finished(rel)

----------------------------------------------------------------------------
(* The order-creation webhook: src/app/routes/webhooks.orders.create.jsx   *)

(* lines 5-21: read the configuration; without a location, return *)
WebhookReceive(payload) ==
  /\ Quiescent
  /\ runs < MaxRuns
  /\ runs' = runs + 1
  /\ rel' = IdleRel
  /\ IF config = NoRow \/ config = ""
     THEN wh' = [IdleWh EXCEPT !.pc = "done", !.payloadId = payload,
                               !.response = "200"]
     ELSE wh' = [IdleWh EXCEPT !.pc = "fetch", !.payloadId = payload,
                               !.targetLocationId = config]
  /\ UNCHANGED <<rev, config, fos, tags, audit, faulted, faults, view, rel2>>

(* lines 24-51: fetch the order; data.order is null for an unknown id and  *)
(* reading data.order.fulfillmentOrders then throws                        *)
WebhookFetch ==
  /\ wh.pc = "fetch"
  /\ IF wh.payloadId \in Orders
     THEN wh' = [wh EXCEPT !.pc = "loop", !.k = 1,
                   !.fulfillmentOrders =
                      FoNodes(fos, wh.payloadId, WebhookFulfillmentOrdersFirst)]
     ELSE wh' = [wh EXCEPT !.pc = "failed", !.response = "500"]
  /\ UNCHANGED <<rev, config, fos, tags, audit, rel, runs, faulted, faults, view, rel2>>

(* a webhook that takes every answered hold for an applied one *)
HoldApplied_Unchecked(before, out) == TRUE

(* lines 90-95: holdApplied is set only when the hold has no userErrors *)
HoldApplied(before, out) == IF out = "ok" THEN TRUE ELSE before

(* a webhook that does not look at the status *)
ShouldHold_AnyStatus(fo, targetLocationId) ==
  fo.location = targetLocationId

(* line 61 *)
ShouldHold(fo, targetLocationId) ==
  fo.location = targetLocationId /\ fo.status = "OPEN"

(* lines 54-61: a shipment that does not match is passed over *)
WebhookSkip ==
  /\ wh.pc = "loop"
  /\ wh.k <= Len(wh.fulfillmentOrders)
  /\ ~ShouldHold(wh.fulfillmentOrders[wh.k], wh.targetLocationId)
  /\ wh' = [wh EXCEPT !.k = @ + 1]
  /\ UNCHANGED <<rev, config, fos, tags, audit, rel, runs, faulted, faults, view, rel2>>

(* lines 61-96: place the hold *)
WebhookHold(out) ==
  /\ wh.pc = "loop"
  /\ wh.k <= Len(wh.fulfillmentOrders)
  /\ LET fo == wh.fulfillmentOrders[wh.k]
         c  == Call("hold", fo.id, wh.payloadId, <<>>, HoldReason, out)
     IN  /\ ShouldHold(fo, wh.targetLocationId)
         /\ out \in Answers(CanHold(fos, fo.id))
         /\ fos' = IF out = "ok" THEN ApplyHold(fos, fo.id) ELSE fos
         /\ wh' = IF out = "throw"
                  THEN [wh EXCEPT !.pc = "failed", !.response = "500",
                                  !.calls = Append(@, c)]
                  ELSE [wh EXCEPT !.k = @ + 1, !.calls = Append(@, c),
                                  !.holdApplied = HoldApplied(@, out)]
         /\ faults' = faults + Fault(out, CanHold(fos, fo.id))
  /\ faulted' = (faulted \/ out # "ok")
  /\ UNCHANGED <<rev, config, tags, audit, rel, runs, view, rel2>>

(* lines 99-120: tag the order; the answer is not read *)
WebhookTag(out) ==
  /\ wh.pc = "loop"
  /\ wh.k > Len(wh.fulfillmentOrders)
  /\ wh.holdApplied
  /\ LET c == Call("tagsAdd", 0, wh.payloadId, <<>>, MarkerTag, out)
     IN  /\ tags' = IF out = "ok"
                    THEN [tags EXCEPT ![wh.payloadId] = @ \cup {MarkerTag}]
                    ELSE tags
         /\ wh' = IF out = "throw"
                  THEN [wh EXCEPT !.pc = "failed", !.response = "500",
                                  !.calls = Append(@, c)]
                  ELSE [wh EXCEPT !.pc = "return", !.calls = Append(@, c)]
  /\ out \in Answers(TRUE)
  /\ faulted' = (faulted \/ out # "ok")
  /\ faults' = faults + Fault(out, TRUE)
  /\ UNCHANGED <<rev, config, fos, audit, rel, runs, view, rel2>>

(* lines 100, 122-123 *)
WebhookReturn ==
  /\ \/ wh.pc = "return"
     \/ wh.pc = "loop" /\ wh.k > Len(wh.fulfillmentOrders) /\ ~wh.holdApplied
  /\ wh' = [wh EXCEPT !.pc = "done", !.response = "200"]
  /\ UNCHANGED <<rev, config, fos, tags, audit, rel, runs, faulted, faults, view, rel2>>

----------------------------------------------------------------------------
(* The settings-save action *)

(* part_002 lines 129-146, part_003 lines 117-125, app._index.jsx 102-110 *)
Save(selectedLocationId) ==
  /\ Quiescent
  /\ runs < MaxRuns
  /\ runs' = runs + 1
  /\ config' = selectedLocationId
  /\ audit' = IF rev = "audit"
              THEN Append(audit, [action |-> "SETTINGS",
                                  description |-> <<"location", selectedLocationId>>])
              ELSE audit
  /\ wh' = IdleWh
  /\ rel' = [IdleRel EXCEPT !.pc = "done", !.status = "success"]
  /\ UNCHANGED <<rev, fos, tags, faulted, faults, view, rel2>>

----------------------------------------------------------------------------
(* The release action, revisions "split" (part_003) and "audit" (part_002) *)

(* part_003 lines 175-177: index of the first on-hold fulfillment order at *)
(* the target location, 0 when find() returns undefined                    *)
IsHeldAt_AnyStatus(fo, targetLocationId) ==
  fo.location = targetLocationId

IsHeldAt(fo, targetLocationId) ==
  fo.location = targetLocationId /\ fo.status = "ON_HOLD"

HeldFulfillment(nodes, targetLocationId) ==
  LET hits == {k \in 1..Len(nodes) : IsHeldAt(nodes[k], targetLocationId)}
  IN  IF hits = {} THEN 0 ELSE CHOOSE k \in hits : \A m \in hits : k <= m

(* part_003 lines 183-185: lineNode.lineItem?.title || "" and the match *)
TitleOf(lineNode) ==
  IF lineNode.lineItem.isNull THEN Empty ELSE lineNode.lineItem.title

(* a match that lower-cases the title only *)
LineMatches_CaseSensitive(l, filterText) ==
  \/ filterText = Empty
  \/ includes(toLowerCase(TitleOf(LineNodes[l])), filterText)

LineMatches(l, filterText) ==
  \/ filterText = Empty
  \/ includes(toLowerCase(TitleOf(LineNodes[l])), toLowerCase(filterText))

(* a filter that picks the lines that do not match *)
LinesToRelease_Unmatched(lineItems, filterText) ==
  Filter(lineItems, {l \in Range(lineItems) : ~LineMatches(l, filterText)})

(* part_003 lines 182-186 *)
LinesToRelease(lineItems, filterText) ==
  Filter(lineItems, {l \in Range(lineItems) : LineMatches(l, filterText)})

(* a comparison that takes a full match for a partial one *)
IsPartialRelease_OrEqual(linesToRelease, lineItems) ==
  Len(linesToRelease) <= Len(lineItems)

(* part_003 line 190 *)
IsPartialRelease(linesToRelease, lineItems) ==
  Len(linesToRelease) < Len(lineItems)

(* part_003 lines 208-211 *)
FulfillmentOrderLineItems(linesToRelease) ==
  [k \in 1..Len(linesToRelease) |->
     [id |-> LineNodes[linesToRelease[k]].id,
      quantity |-> LineNodes[linesToRelease[k]].remainingQuantity]]

(* the tag each revision passes to tagsRemove *)
RemovedTag(r) == IF r = "audit" THEN MojibakeTag ELSE MarkerTag

(* the order the loop is at, its held fulfillment order and the match *)
CurOrder == rel.holdData[rel.i]
CurHeld  ==
  LET k == HeldFulfillment(CurOrder.fulfillmentOrders, rel.targetLocationId)
  IN  IF k = 0 THEN [id |-> 0, lineItems |-> <<>>]
      ELSE CurOrder.fulfillmentOrders[k]
CurLines == LinesToRelease(CurHeld.lineItems, rel.filterText)

(* a loop without the `continue` of line 188 *)
Skipped_NoEmptyCheck ==
  \/ CurOrder.id \notin rel.targetOrderIds
  \/ CurHeld.id = 0

(* part_003 lines 173, 179, 188: the three `continue` *)
(* a loop that processes every fetched order, targeted or not *)
Skipped_NoTargetCheck ==
  \/ CurHeld.id = 0
  \/ Len(CurLines) = 0

Skipped ==
  \/ CurOrder.id \notin rel.targetOrderIds
  \/ CurHeld.id = 0
  \/ Len(CurLines) = 0

InLoop == rel.pc = "loop" /\ rel.i <= Len(rel.holdData)

(* an action that catches the failure and reports success *)
Fail_Caught(c) == [rel EXCEPT !.pc = "done", !.status = "success",
                              !.calls = Append(@, c)]

Fail(c) == [rel EXCEPT !.pc = "failed", !.status = "error",
                       !.calls = Append(@, c)]

(* part_002 lines 267-270, 282-284; part_003 lines 269-270, 283-284 *)
Counted(r, c, split) ==
  [r EXCEPT !.pc = "loop", !.i = @ + 1, !.calls = Append(@, c),
     !.releasedCount = @ + 1,
     !.splitCount = IF rev = "audit" /\ split THEN @ + 1 ELSE @,
     !.ordersToCheckForTagRemoval = SetAdd(@, CurOrder.id),
     !.releasedOrderNames = IF rev = "audit" THEN Append(@, CurOrder.name) ELSE @]

(* part_003 lines 127-170: read the form, fetch the orders once.  Either   *)
(* intent fills targetOrderIds (from selectedOrderIds or filteredOrderIds) *)
(* and is not read again.                                                  *)
StartRelease(intent, targetLocationId, filterText, targetOrderIds) ==
  /\ rev \in {"split", "audit"}
  /\ intent \in {"release_all", "release_selected"}
  /\ Quiescent
  /\ runs < MaxRuns
  /\ runs' = runs + 1
  /\ wh' = IdleWh
  /\ rel' = [IdleRel EXCEPT !.pc = "loop", !.i = 1,
               !.repeat = Repeats("none", targetLocationId, filterText,
                                  targetOrderIds),
               !.targetLocationId = targetLocationId,
               !.filterText = filterText,
               !.targetOrderIds = targetOrderIds,
               !.holdData = HoldQuery(fos, rev)]
  /\ UNCHANGED <<rev, config, fos, tags, audit, faulted, faults, view, rel2>>

ReleaseSkip ==
  /\ InLoop
  /\ Skipped
  /\ rel' = [rel EXCEPT !.i = @ + 1]
  /\ UNCHANGED <<rev, config, fos, tags, audit, wh, runs, faulted, faults, view, rel2>>

(* part_003 lines 193-204: unlock before the split; the answer is not read *)
ReleaseUnlock(out) ==
  /\ InLoop
  /\ ~Skipped
  /\ IsPartialRelease(CurLines, CurHeld.lineItems)
  /\ out \in Answers(CanRelease(fos, CurHeld.id))
  /\ LET c == Call("releaseHold", CurHeld.id, CurOrder.id, <<>>, "", out)
     IN  rel' = IF out = "throw" THEN Fail(c)
                ELSE [rel EXCEPT !.pc = "split", !.calls = Append(@, c),
                                 !.heldFulfillment = CurHeld.id,
                                 !.linesToRelease = CurLines]
  /\ fos' = IF out = "ok" THEN ApplyRelease(fos, CurHeld.id) ELSE fos
  /\ faulted' = (faulted \/ out # "ok")
  /\ faults' = faults + Fault(out, CanRelease(fos, CurHeld.id))
  /\ UNCHANGED <<rev, config, tags, audit, wh, runs, view, rel2>>

(* part_003 lines 206-250, part_002 lines 225-255: split the matched lines *)
ReleaseSplit(out) ==
  /\ rel.pc = "split"
  /\ out \in Answers(CanSplit(fos, rel.heldFulfillment, Range(rel.linesToRelease)))
  /\ LET c == Call("split", rel.heldFulfillment, CurOrder.id,
                   FulfillmentOrderLineItems(rel.linesToRelease), "", out)
     IN  rel' = CASE out = "throw" -> Fail(c)
                  [] out = "ok" -> [rel EXCEPT !.pc = "relock",
                                               !.calls = Append(@, c)]
                  [] OTHER ->
                     IF rev = "split"
                     THEN [rel EXCEPT !.pc = "rehold", !.calls = Append(@, c)]
                     ELSE [rel EXCEPT !.pc = "loop", !.i = @ + 1,
                                      !.calls = Append(@, c)]
  /\ fos' = IF out = "ok"
            THEN ApplySplit(fos, rel.heldFulfillment, Range(rel.linesToRelease))
            ELSE fos
  /\ faulted' = (faulted \/ out # "ok")
  /\ faults' = faults + Fault(out, CanSplit(fos, rel.heldFulfillment, Range(rel.linesToRelease)))
  /\ UNCHANGED <<rev, config, tags, audit, wh, runs, view, rel2>>

(* part_003 lines 240-249: the split failed, hold the original again *)
ReleaseRehold(out) ==
  /\ rel.pc = "rehold"
  /\ out \in Answers(CanHold(fos, rel.heldFulfillment))
  /\ LET c == Call("hold", rel.heldFulfillment, CurOrder.id, <<>>, HoldReason, out)
     IN  rel' = IF out = "throw" THEN Fail(c)
                ELSE [rel EXCEPT !.pc = "loop", !.i = @ + 1,
                                 !.calls = Append(@, c)]
  /\ fos' = IF out = "ok" THEN ApplyHold(fos, rel.heldFulfillment) ELSE fos
  /\ faulted' = (faulted \/ out # "ok")
  /\ faults' = faults + Fault(out, CanHold(fos, rel.heldFulfillment))
  /\ UNCHANGED <<rev, config, tags, audit, wh, runs, view, rel2>>

(* part_003 lines 252-270, part_002 lines 257-270: hold the remainder *)
ReleaseRelock(out) ==
  /\ rel.pc = "relock"
  /\ out \in Answers(CanHold(fos, rel.heldFulfillment))
  /\ LET c == Call("hold", rel.heldFulfillment, CurOrder.id, <<>>, HoldReason, out)
     IN  rel' = IF out = "throw" THEN Fail(c) ELSE Counted(rel, c, TRUE)
  /\ fos' = IF out = "ok" THEN ApplyHold(fos, rel.heldFulfillment) ELSE fos
  /\ faulted' = (faulted \/ out # "ok")
  /\ faults' = faults + Fault(out, CanHold(fos, rel.heldFulfillment))
  /\ UNCHANGED <<rev, config, tags, audit, wh, runs, view, rel2>>

(* part_003 lines 272-285: full release; the answer is not read *)
ReleaseFull(out) ==
  /\ InLoop
  /\ ~Skipped
  /\ ~IsPartialRelease(CurLines, CurHeld.lineItems)
  /\ out \in Answers(CanRelease(fos, CurHeld.id))
  /\ LET c == Call("releaseHold", CurHeld.id, CurOrder.id, <<>>, "", out)
     IN  rel' = IF out = "throw" THEN Fail(c) ELSE Counted(rel, c, FALSE)
  /\ fos' = IF out = "ok" THEN ApplyRelease(fos, CurHeld.id) ELSE fos
  /\ faulted' = (faulted \/ out # "ok")
  /\ faults' = faults + Fault(out, CanRelease(fos, CurHeld.id))
  /\ UNCHANGED <<rev, config, tags, audit, wh, runs, view, rel2>>

(* part_003 line 286 -> 289 *)
ReleaseLoopDone ==
  /\ rel.pc = "loop"
  /\ rel.i > Len(rel.holdData)
  /\ rel' = [rel EXCEPT !.pc = "cleanup", !.j = 1]
  /\ UNCHANGED <<rev, config, fos, tags, audit, wh, runs, faulted, faults, view, rel2>>

(* part_003 lines 307-309 *)
RemainingHolds(F, o, targetLocationId) ==
  LET nodes == FoNodes(F, o, CheckFulfillmentOrdersFirst)
  IN  \E k \in 1..Len(nodes) : IsHeldAt(nodes[k], targetLocationId)

(* part_003 lines 289-311: re-query one touched order *)
ReleaseCheck ==
  /\ rel.pc = "cleanup"
  /\ rel.j <= Len(rel.ordersToCheckForTagRemoval)
  /\ rel' = IF RemainingHolds(fos, rel.ordersToCheckForTagRemoval[rel.j],
                              rel.targetLocationId)
            THEN [rel EXCEPT !.j = @ + 1]
            ELSE [rel EXCEPT !.pc = "untag"]
  /\ UNCHANGED <<rev, config, fos, tags, audit, wh, runs, faulted, faults, view, rel2>>

(* part_003 lines 311-320, part_002 lines 309-318 *)
ReleaseUntag(out) ==
  /\ rel.pc = "untag"
  /\ LET o == rel.ordersToCheckForTagRemoval[rel.j]
         c == Call("tagsRemove", 0, o, <<>>, RemovedTag(rev), out)
     IN  /\ rel' = IF out = "throw" THEN Fail(c)
                   ELSE [rel EXCEPT !.pc = "cleanup", !.j = @ + 1,
                                    !.calls = Append(@, c)]
         /\ tags' = IF out = "ok"
                    THEN [tags EXCEPT ![o] = @ \ {RemovedTag(rev)}]
                    ELSE tags
  /\ out \in Answers(TRUE)
  /\ faulted' = (faulted \/ out # "ok")
  /\ faults' = faults + Fault(out, TRUE)
  /\ UNCHANGED <<rev, config, fos, audit, wh, runs, view, rel2>>

(* a log step that never records a split *)
ReleaseLog_KindRelease ==
  /\ rev = "audit"
  /\ rel.pc = "cleanup"
  /\ rel.j > Len(rel.ordersToCheckForTagRemoval)
  /\ audit' = Append(audit,
       [action |-> "RELEASE",
        description |-> <<rel.filterText, rel.releasedCount,
                          rel.releasedOrderNames>>])
  /\ rel' = [rel EXCEPT !.pc = "return"]
  /\ UNCHANGED <<rev, config, fos, tags, wh, runs, faulted, faults, view, rel2>>

(* part_002 lines 321-340: one audit entry *)
ReleaseLog ==
  /\ rev = "audit"
  /\ rel.pc = "cleanup"
  /\ rel.j > Len(rel.ordersToCheckForTagRemoval)
  /\ audit' = Append(audit,
       [action |-> IF rel.splitCount > 0 THEN "SPLIT_RELEASE" ELSE "RELEASE",
        description |-> <<rel.filterText, rel.releasedCount,
                          rel.releasedOrderNames>>])
  /\ rel' = [rel EXCEPT !.pc = "return"]
  /\ UNCHANGED <<rev, config, fos, tags, wh, runs, faulted, faults, view, rel2>>

(* part_003 line 323, part_002 line 342 *)
ReleaseReturn ==
  /\ \/ rev = "audit" /\ rel.pc = "return"
     \/ /\ rev = "split" /\ rel.pc = "cleanup"
        /\ rel.j > Len(rel.ordersToCheckForTagRemoval)
  /\ rel' = [rel EXCEPT !.pc = "done", !.status = "success",
                        !.count = rel.releasedCount]
  /\ UNCHANGED <<rev, config, fos, tags, audit, wh, runs, faulted, faults, view, rel2>>

----------------------------------------------------------------------------
(* The release action, revision "index" (src/app/routes/app._index.jsx)    *)

(* lines 146-151: the held fulfillment orders of one order *)
HeldIds(nodes, targetLocationId) ==
  LET held == {k \in 1..Len(nodes) : IsHeldAt(nodes[k], targetLocationId)}
      ids  == [k \in 1..Len(nodes) |-> nodes[k].id]
  IN  Filter(ids, {nodes[k].id : k \in held})

(* line 144 *)
Passed(intent, selectedOrderIds, order) ==
  ~(intent = "release_selected" /\ order.id \notin selectedOrderIds)

(* lines 140-152 *)
RECURSIVE IdsToRelease(_, _, _, _, _)
IdsToRelease(data, intent, selectedOrderIds, targetLocationId, k) ==
  IF k > Len(data) THEN <<>>
  ELSE (IF Passed(intent, selectedOrderIds, data[k])
        THEN HeldIds(data[k].fulfillmentOrders, targetLocationId)
        ELSE <<>>)
       \o IdsToRelease(data, intent, selectedOrderIds, targetLocationId, k + 1)

RECURSIVE OrderIdsToClean(_, _, _, _, _)
OrderIdsToClean(data, intent, selectedOrderIds, targetLocationId, k) ==
  IF k > Len(data) THEN <<>>
  ELSE (IF /\ Passed(intent, selectedOrderIds, data[k])
           /\ HeldIds(data[k].fulfillmentOrders, targetLocationId) # <<>>
        THEN <<data[k].id>>
        ELSE <<>>)
       \o OrderIdsToClean(data, intent, selectedOrderIds, targetLocationId, k + 1)

(* lines 112-156: read the form, fetch, collect; nothing held -> "info" *)
StartReleaseIndex(intent, targetLocationId, selectedOrderIds) ==
  /\ rev = "index"
  /\ Quiescent
  /\ runs < MaxRuns
  /\ runs' = runs + 1
  /\ wh' = IdleWh
  /\ intent = "release_all" => selectedOrderIds = {}
  /\ LET data == HoldQuery(fos, rev)
         ids  == IdsToRelease(data, intent, selectedOrderIds, targetLocationId, 1)
         cl   == OrderIdsToClean(data, intent, selectedOrderIds, targetLocationId, 1)
         r    == [IdleRel EXCEPT !.intent = intent,
                    !.repeat = Repeats(intent, targetLocationId, Empty,
                                       selectedOrderIds),
                    !.targetLocationId = targetLocationId,
                    !.targetOrderIds = selectedOrderIds,
                    !.holdData = data,
                    !.idsToRelease = ids, !.orderIdsToClean = cl]
     IN  rel' = IF Len(ids) = 0
                THEN [r EXCEPT !.pc = "done", !.status = "info"]
                ELSE [r EXCEPT !.pc = "release", !.i = 1, !.j = 1]
  /\ UNCHANGED <<rev, config, fos, tags, audit, faulted, faults, view, rel2>>

(* lines 158-160 *)
IndexRelease(out) ==
  /\ rel.pc = "release"
  /\ rel.i <= Len(rel.idsToRelease)
  /\ LET f == rel.idsToRelease[rel.i]
         c == Call("releaseHold", f, fos[f].order, <<>>, "", out)
     IN  /\ out \in Answers(CanRelease(fos, f))
         /\ rel' = IF out = "throw" THEN Fail(c)
                   ELSE [rel EXCEPT !.i = @ + 1, !.calls = Append(@, c)]
         /\ fos' = IF out = "ok" THEN ApplyRelease(fos, f) ELSE fos
         /\ faults' = faults + Fault(out, CanRelease(fos, f))
  /\ faulted' = (faulted \/ out # "ok")
  /\ UNCHANGED <<rev, config, tags, audit, wh, runs, view, rel2>>

(* lines 161-163 *)
IndexUntag(out) ==
  /\ rel.pc = "release"
  /\ rel.i > Len(rel.idsToRelease)
  /\ rel.j <= Len(rel.orderIdsToClean)
  /\ LET o == rel.orderIdsToClean[rel.j]
         c == Call("tagsRemove", 0, o, <<>>, RemovedTag(rev), out)
     IN  /\ rel' = IF out = "throw" THEN Fail(c)
                   ELSE [rel EXCEPT !.j = @ + 1, !.calls = Append(@, c)]
         /\ tags' = IF out = "ok"
                    THEN [tags EXCEPT ![o] = @ \ {RemovedTag(rev)}]
                    ELSE tags
  /\ out \in Answers(TRUE)
  /\ faulted' = (faulted \/ out # "ok")
  /\ faults' = faults + Fault(out, TRUE)
  /\ UNCHANGED <<rev, config, fos, audit, wh, runs, view, rel2>>

(* line 165 *)
IndexReturn ==
  /\ rel.pc = "release"
  /\ rel.i > Len(rel.idsToRelease)
  /\ rel.j > Len(rel.orderIdsToClean)
  /\ rel' = [rel EXCEPT !.pc = "done", !.status = "success",
                        !.count = Len(rel.idsToRelease)]
  /\ UNCHANGED <<rev, config, fos, tags, audit, wh, runs, faulted, faults, view, rel2>>

----------------------------------------------------------------------------
(* The loader of the page (app._index.jsx lines 24-93, part_003 lines      *)
(* 25-109, part_002 lines 28-121).  It changes nothing; its held-order     *)
(* list is what the operator sees and selects from.                        *)

NoView == [loaded |-> FALSE, queried |-> FALSE, heldOrders |-> <<>>]

(* page sizes of the loader's order query *)
LoaderOrdersFirst == 250
LoaderFulfillmentOrdersFirst(r) == IF r = "index" THEN 5 ELSE 10

(* config?.locationId || "" *)
SavedLocationId(cfg) == IF cfg = NoRow THEN "" ELSE cfg

(* orders(first: 250, query: "fulfillment_status:unfulfilled") *)
RECURSIVE LoaderNodesFrom(_, _, _)
LoaderNodesFrom(F, r, o) ==
  IF o \notin Orders \/ o > LoaderOrdersFirst THEN <<>>
  ELSE <<[id |-> o, name |-> OrderName[o],
          fulfillmentOrders |->
             FoNodes(F, o, LoaderFulfillmentOrdersFirst(r))]>>
       \o LoaderNodesFrom(F, r, o + 1)

(* a loader that lists every order that has a fulfillment order at the     *)
(* saved location, on hold or not                                          *)
IsHeld_AnyStatus(order, savedLocationId) ==
  \E k \in 1..Len(order.fulfillmentOrders) :
    order.fulfillmentOrders[k].location = savedLocationId

(* app._index.jsx lines 70-73 (some), part_003 lines 73-75 (find) *)
IsHeld(order, savedLocationId) ==
  \E k \in 1..Len(order.fulfillmentOrders) :
    IsHeldAt(order.fulfillmentOrders[k], savedLocationId)

RECURSIVE HeldOrdersFrom(_, _, _)
HeldOrdersFrom(data, savedLocationId, k) ==
  IF k > Len(data) THEN <<>>
  ELSE (IF IsHeld(data[k], savedLocationId) THEN <<data[k].id>> ELSE <<>>)
       \o HeldOrdersFrom(data, savedLocationId, k + 1)

Loader(r, cfg, F) ==
  IF SavedLocationId(cfg) = ""
  THEN [loaded |-> TRUE, queried |-> FALSE, heldOrders |-> <<>>]
  ELSE [loaded |-> TRUE, queried |-> TRUE,
        heldOrders |->
          HeldOrdersFrom(LoaderNodesFrom(F, r, 1), SavedLocationId(cfg), 1)]

Load ==
  /\ ~view.loaded
  /\ view' = Loader(rev, config, fos)
  /\ UNCHANGED <<rev, config, fos, tags, audit, wh, rel, runs, faulted, faults,
                 rel2>>

----------------------------------------------------------------------------
(* The shop at the start.  Order 1 has one fulfillment order (Widget,       *)
(* Gadget); order 2 has two, the second one at either location.  An order  *)
(* is new (everything OPEN, no tag) or, with location L1 configured, as    *)
(* its webhook delivery left it: its fulfillment orders at L1 ON_HOLD and  *)
(* the order tagged.  Either both orders are new or both were delivered.   *)

NewFos(loc3) ==
  << [order |-> 1, loc |-> "L1", status |-> "OPEN", lines |-> <<1, 2>>],
     [order |-> 2, loc |-> "L1", status |-> "OPEN", lines |-> <<3>>],
     [order |-> 2, loc |-> loc3, status |-> "OPEN", lines |-> <<4>>] >>

InitialFos(loc3, held) ==
  [f \in 1..3 |->
     IF NewFos(loc3)[f].order \in held /\ NewFos(loc3)[f].loc = "L1"
     THEN [NewFos(loc3)[f] EXCEPT !.status = "ON_HOLD"]
     ELSE NewFos(loc3)[f]]

Init ==
  /\ rev \in Revisions
  /\ config \in {NoRow, "L1"}
  /\ \E loc3 \in Locations, held \in {{}, Orders} :
       /\ config = NoRow => held = {}
       /\ fos = InitialFos(loc3, held)
       /\ tags = [o \in Orders |-> IF o \in held THEN {MarkerTag} ELSE {}]
  /\ audit = <<>>
  /\ wh = IdleWh
  /\ rel = IdleRel
  /\ runs = 0
  /\ faulted = FALSE
  /\ faults = 0
  /\ view = NoView
  /\ rel2 = IdleRel

Next ==
  \/ \E payload \in Orders \cup {GhostOrder} : WebhookReceive(payload)
  \/ WebhookFetch
  \/ WebhookSkip
  \/ \E out \in Outcomes : WebhookHold(out)
  \/ \E out \in Outcomes : WebhookTag(out)
  \/ WebhookReturn
  \/ \E l \in Locations \cup {""} : Save(l)
  \/ \E intent \in {"release_all", "release_selected"},
        l \in Locations, f \in Filters, t \in SUBSET Orders :
        StartRelease(intent, l, f, t)
  \/ ReleaseSkip
  \/ \E out \in Outcomes : ReleaseUnlock(out)
  \/ \E out \in Outcomes : ReleaseSplit(out)
  \/ \E out \in Outcomes : ReleaseRehold(out)
  \/ \E out \in Outcomes : ReleaseRelock(out)
  \/ \E out \in Outcomes : ReleaseFull(out)
  \/ ReleaseLoopDone
  \/ ReleaseCheck
  \/ \E out \in Outcomes : ReleaseUntag(out)
  \/ ReleaseLog
  \/ ReleaseReturn
  \/ \E intent \in {"release_all", "release_selected"},
        l \in Locations, t \in SUBSET Orders :
        StartReleaseIndex(intent, l, t)
  \/ \E out \in Outcomes : IndexRelease(out)
  \/ \E out \in Outcomes : IndexUntag(out)
  \/ IndexReturn

Spec == Init /\ [][Next]_vars

----------------------------------------------------------------------------
(* Deliveries during a release action.  The handlers share nothing but the *)
(* platform, and each awaited call is a point where the other may run.     *)

(* webhooks.orders.create.jsx lines 5-21, for a delivery that arrives      *)
(* while a release action is in flight                                     *)
WebhookReceiveDuring(payload) ==
  /\ ~Finished(rel)
  /\ wh.pc = "idle"
  /\ runs < MaxRuns
  /\ runs' = runs + 1
  /\ IF config = NoRow \/ config = ""
     THEN wh' = [IdleWh EXCEPT !.pc = "done", !.payloadId = payload,
                               !.response = "200"]
     ELSE wh' = [IdleWh EXCEPT !.pc = "fetch", !.payloadId = payload,
                               !.targetLocationId = config]
  /\ UNCHANGED <<rev, config, fos, tags, audit, rel, faulted, faults, view, rel2>>

NextConcurrent ==
  \/ \E payload \in Orders : WebhookReceiveDuring(payload)
  \/ WebhookFetch
  \/ WebhookSkip
  \/ \E out \in Outcomes : WebhookHold(out)
  \/ \E out \in Outcomes : WebhookTag(out)
  \/ WebhookReturn
  \/ \E intent \in {"release_all", "release_selected"},
        l \in Locations, f \in Filters, t \in SUBSET Orders :
        StartRelease(intent, l, f, t)
  \/ ReleaseSkip
  \/ \E out \in Outcomes : ReleaseUnlock(out)
  \/ \E out \in Outcomes : ReleaseSplit(out)
  \/ \E out \in Outcomes : ReleaseRehold(out)
  \/ \E out \in Outcomes : ReleaseRelock(out)
  \/ \E out \in Outcomes : ReleaseFull(out)
  \/ ReleaseLoopDone
  \/ ReleaseCheck
  \/ \E out \in Outcomes : ReleaseUntag(out)
  \/ ReleaseLog
  \/ ReleaseReturn
  \/ \E intent \in {"release_all", "release_selected"},
        l \in Locations, t \in SUBSET Orders :
        StartReleaseIndex(intent, l, t)
  \/ \E out \in Outcomes : IndexRelease(out)
  \/ \E out \in Outcomes : IndexUntag(out)
  \/ IndexReturn

SpecConcurrent == Init /\ [][NextConcurrent]_vars

----------------------------------------------------------------------------
(* Two release actions at once (two operators, or one request sent twice). *)
(* Each request runs the same code on its own locals; the server runs one  *)
(* of them until its next awaited call and may then continue the other.    *)
(* rel is the action that runs, rel2 the one that waits.  Both requests    *)
(* come from pages that show the saved location.                           *)

Switch ==
  /\ \/ ~Finished(rel2)
     \/ rel2.pc = "idle" /\ ~Finished(rel) /\ runs < MaxRuns
  /\ rel' = rel2
  /\ rel2' = rel
  /\ UNCHANGED <<rev, config, fos, tags, audit, wh, runs, faulted, faults, view>>

NextTwo ==
  \/ Switch
  \/ \E intent \in {"release_all", "release_selected"},
        f \in Filters, t \in SUBSET Orders :
        StartRelease(intent, config, f, t)
  \/ ReleaseSkip
  \/ \E out \in Outcomes : ReleaseUnlock(out)
  \/ \E out \in Outcomes : ReleaseSplit(out)
  \/ \E out \in Outcomes : ReleaseRehold(out)
  \/ \E out \in Outcomes : ReleaseRelock(out)
  \/ \E out \in Outcomes : ReleaseFull(out)
  \/ ReleaseLoopDone
  \/ ReleaseCheck
  \/ \E out \in Outcomes : ReleaseUntag(out)
  \/ ReleaseLog
  \/ ReleaseReturn
  \/ \E intent \in {"release_all", "release_selected"},
        t \in SUBSET Orders :
        StartReleaseIndex(intent, config, t)
  \/ \E out \in Outcomes : IndexRelease(out)
  \/ \E out \in Outcomes : IndexUntag(out)
  \/ IndexReturn

(* the shop with L1 configured and both orders delivered *)
InitTwo == Init /\ config = "L1" /\ fos[1].status = "ON_HOLD"

SpecTwo == InitTwo /\ [][NextTwo]_vars

----------------------------------------------------------------------------
(* The loader over shops of any shape.  Order 1 has up to MaxPad open      *)
(* fulfillment orders at L2 followed by one more, order 2 has one; the one *)
(* and the other are at either location, OPEN or ON_HOLD.  The listing     *)
(* reads no line items, which are left out.                                *)

Shipment(o, l, st) == [order |-> o, loc |-> l, status |-> st, lines |-> <<>>]

LoaderFos(pad, last, other) ==
  [k \in 1..pad |-> Shipment(1, "L2", "OPEN")] \o <<last, other>>

InitLoader ==
  /\ rev \in Revisions
  /\ config \in {NoRow, ""} \cup Locations
  /\ \E pad \in 0..MaxPad, l1, l2 \in Locations,
        s1, s2 \in {"OPEN", "ON_HOLD"} :
       fos = LoaderFos(pad, Shipment(1, l1, s1), Shipment(2, l2, s2))
  /\ tags = [o \in Orders |-> {}]
  /\ audit = <<>>
  /\ wh = IdleWh
  /\ rel = IdleRel
  /\ runs = 0
  /\ faulted = FALSE
  /\ faults = 0
  /\ view = NoView
  /\ rel2 = IdleRel

NextLoader == Load

SpecLoader == InitLoader /\ [][NextLoader]_vars

----------------------------------------------------------------------------
(* The view and the action on the same shop.  Both orders are as their      *)
(* webhook delivery left them at L1; order 1 has up to MaxPad earlier       *)
(* fulfillment orders at the other location.  The loader runs once, before  *)
(* or after the release request is read.                                    *)

ViewFos(pad) ==
  [k \in 1..pad |-> Shipment(1, "L2", "OPEN")] \o InitialFos("L2", Orders)

InitView ==
  /\ rev \in Revisions
  /\ config = "L1"
  /\ \E pad \in 0..MaxPad : fos = ViewFos(pad)
  /\ tags = [o \in Orders |-> {MarkerTag}]
  /\ audit = <<>>
  /\ wh = IdleWh
  /\ rel = IdleRel
  /\ runs = 0
  /\ faulted = FALSE
  /\ faults = 0
  /\ view = NoView
  /\ rel2 = IdleRel

NextView ==
  \/ Load
  \/ \E intent \in {"release_all", "release_selected"},
        f \in Filters, t \in SUBSET Orders :
        StartRelease(intent, config, f, t)
  \/ ReleaseSkip
  \/ \E out \in Outcomes : ReleaseUnlock(out)
  \/ \E out \in Outcomes : ReleaseSplit(out)
  \/ \E out \in Outcomes : ReleaseRehold(out)
  \/ \E out \in Outcomes : ReleaseRelock(out)
  \/ \E out \in Outcomes : ReleaseFull(out)
  \/ ReleaseLoopDone
  \/ ReleaseCheck
  \/ \E out \in Outcomes : ReleaseUntag(out)
  \/ ReleaseLog
  \/ ReleaseReturn
  \/ \E intent \in {"release_all", "release_selected"}, t \in SUBSET Orders :
        StartReleaseIndex(intent, config, t)
  \/ \E out \in Outcomes : IndexRelease(out)
  \/ \E out \in Outcomes : IndexUntag(out)
  \/ IndexReturn

SpecView == InitView /\ [][NextView]_vars

----------------------------------------------------------------------------
(* Vocabulary of the properties *)

RECURSIVE Pick(_, _, _)
Pick(s, o, k) ==
  IF k > Len(s) THEN <<>>
  ELSE IF s[k].order = o /\ s[k].op # "tagsRemove"
       THEN <<s[k]>> \o Pick(s, o, k + 1)
       ELSE Pick(s, o, k + 1)

(* the fulfillment-order mutations a release action issued for order o *)
CallsFor(o) == Pick(rel.calls, o, 1)

Ops(s) == [k \in 1..Len(s) |-> s[k].op]

SplitRevision == rev \in {"split", "audit"}

(* the release action targets order o *)
Targeted(o) ==
  IF rev = "index" /\ rel.intent = "release_all" THEN TRUE
  ELSE o \in rel.targetOrderIds

(* the first on-hold fulfillment order at the target location that the     *)
(* action fetched for the order at position k of its snapshot              *)
HeldOf(k) ==
  LET nodes == rel.holdData[k].fulfillmentOrders
      m == HeldFulfillment(nodes, rel.targetLocationId)
  IN  IF m = 0 THEN [id |-> 0, lineItems |-> <<>>] ELSE nodes[m]

(* case-insensitive containment of the filter text in a line's title *)
TitleHas(l, text) ==
  LET t == IF LineNodes[l].lineItem.isNull THEN Empty
           ELSE LineNodes[l].lineItem.title
  IN  \E a \in 1..(Len(t) + 1) : \E b \in (a - 1)..Len(t) :
        /\ b - a + 1 = Len(text)
        /\ \A n \in 1..Len(text) :
             LowerChar(t[a + n - 1]) = LowerChar(text[n])

Matched(k) ==
  {l \in Range(HeldOf(k).lineItems) : TitleHas(l, rel.filterText)}

(* the loop of a split revision has gone past position k of the snapshot *)
Passed3(k) == SplitRevision /\ k \in 1..Len(rel.holdData) /\ k < rel.i

(* C1: in the split revisions, once the loop is past a targeted order      *)
(* whose held fulfillment order has a non-empty, strict subset of lines    *)
(* matching the filter, the mutations issued for that order are exactly:   *)
(* release-hold on it, one split of exactly the matched lines with their   *)
(* remaining quantities, hold on it.                                       *)
C1_PartialReleaseSequence ==
  \A k \in 1..Len(rel.holdData) :
    ( /\ Passed3(k)
      /\ Targeted(rel.holdData[k].id)
      /\ HeldOf(k).id # 0
      /\ Matched(k) # {}
      /\ Matched(k) # Range(HeldOf(k).lineItems) )
    => LET cs == CallsFor(rel.holdData[k].id)
           f  == HeldOf(k).id
       IN  /\ Ops(cs) = <<"releaseHold", "split", "hold">>
           /\ \A n \in 1..3 : cs[n].fo = f
           /\ Len(cs[2].lines) = Cardinality(Matched(k))
           /\ \A n \in 1..Len(cs[2].lines) :
                /\ cs[2].lines[n].id \in Matched(k)
                /\ cs[2].lines[n].quantity =
                     LineNodes[cs[2].lines[n].id].remainingQuantity
           /\ {cs[2].lines[n].id : n \in 1..Len(cs[2].lines)} = Matched(k)


(* the on-hold fulfillment orders at the target location that the action   *)
(* fetched for the order at position k of its snapshot                     *)
HeldSet(k) ==
  LET nodes == rel.holdData[k].fulfillmentOrders
  IN  {nodes[m].id : m \in {n \in 1..Len(nodes) :
         /\ nodes[n].location = rel.targetLocationId
         /\ nodes[n].status = "ON_HOLD"}}

(* C2: with an empty filter, a targeted order with exactly one on-hold     *)
(* fulfillment order at the target location never receives a split or a   *)
(* hold, never more than one release-hold, and when the action has         *)
(* returned it has received exactly one release-hold, on that fulfillment  *)
(* order.                                                                  *)
C2_FullReleaseNoFilter ==
  \A k \in 1..Len(rel.holdData) :
    LET o  == rel.holdData[k].id
        cs == CallsFor(o)
    IN  ( /\ Targeted(o)
          /\ rel.filterText = Empty
          /\ Cardinality(HeldSet(k)) = 1 )
        => /\ \A n \in 1..Len(cs) : cs[n].op = "releaseHold"
           /\ Len(cs) <= 1
           /\ rel.pc = "done" => /\ Len(cs) = 1
                                 /\ cs[1].fo \in HeldSet(k)

C2_Witness ==
  /\ SplitRevision
  /\ rel.pc = "done"
  /\ rel.status = "success"
  /\ rel.filterText = Empty
  /\ \E k \in 1..Len(rel.holdData) :
       /\ Targeted(rel.holdData[k].id)
       /\ Cardinality(HeldSet(k)) = 1
       /\ Ops(CallsFor(rel.holdData[k].id)) = <<"releaseHold">>
       /\ Len(HeldOf(k).lineItems) = 2


(* the fulfillment order with id f as the action fetched it *)
Fetched(f) ==
  LET hits == {n \in [k : 1..Len(rel.holdData), m : 1..3] :
                 /\ n.m <= Len(rel.holdData[n.k].fulfillmentOrders)
                 /\ rel.holdData[n.k].fulfillmentOrders[n.m].id = f}
      n == CHOOSE x \in hits : TRUE
  IN  rel.holdData[n.k].fulfillmentOrders[n.m]

(* C3: when the split of a partial release answers with user errors, the   *)
(* action holds the original fulfillment order again before it moves on,   *)
(* does not count the order nor put it in the tag-check set, and, the hold *)
(* accepted, the action ends with the original fulfillment order ON_HOLD   *)
(* with all its line items.                                                *)
C3_SplitFailureCompensated ==
  SplitRevision =>
    \A n \in 1..Len(rel.calls) :
      LET c == rel.calls[n]
      IN  (c.op = "split" /\ c.out = "userErrors" /\ rel.pc # "rehold")
          => /\ n < Len(rel.calls)
             /\ rel.calls[n + 1].op = "hold"
             /\ rel.calls[n + 1].fo = c.fo
             /\ c.order \notin Range(rel.ordersToCheckForTagRemoval)
             /\ OrderName[c.order] \notin Range(rel.releasedOrderNames)
             /\ rel.releasedCount = Len(rel.ordersToCheckForTagRemoval)
             /\ (rel.pc = "done" /\ rel.calls[n + 1].out = "ok")
                  => /\ fos[c.fo].status = "ON_HOLD"
                     /\ fos[c.fo].lines = Fetched(c.fo).lineItems

(* the release action in flight has returned and all its mutations, and    *)
(* all mutations before it, were applied                                   *)
CleanRelease ==
  /\ rel.pc = "done"
  /\ rel.status = "success"
  /\ rel.calls # <<>>
  /\ ~faulted

Touched ==
  Range(rel.ordersToCheckForTagRemoval) \cup Range(rel.orderIdsToClean)

HeldAt(o, l) ==
  \E f \in 1..Len(fos) :
    fos[f].order = o /\ fos[f].loc = l /\ fos[f].status = "ON_HOLD"

(* C4: after a release action that returned without any mutation error,   *)
(* every order it touched carries the marker tag if and only if one of its *)
(* fulfillment orders is ON_HOLD at the target location.                   *)
C4_TagIffHeldAfterRelease ==
  CleanRelease =>
    \A o \in Touched :
      (MarkerTag \in tags[o]) <=> HeldAt(o, rel.targetLocationId)

(* C5: every delivery of the webhook ends with the empty success response. *)
C5_WebhookAlwaysSucceeds ==
  wh.pc \in {"done", "failed"} => wh.response = "200"


(* the webhook issued a hold on fulfillment order f *)
WebhookHeld(f) ==
  \E n \in 1..Len(wh.calls) : wh.calls[n].op = "hold" /\ wh.calls[n].fo = f

(* C6: the webhook issues only hold and tag mutations; every hold carries  *)
(* the reason INVENTORY_OUT_OF_STOCK; and every fulfillment order of the   *)
(* delivered order that the webhook has examined or held was held if and   *)
(* only if it was fetched at the configured location with status OPEN.     *)
(* When the webhook has returned, all of them have been examined.          *)
C6_WebhookHoldsOpenAtLocation ==
  /\ \A n \in 1..Len(wh.calls) :
       /\ wh.calls[n].op \in {"hold", "tagsAdd"}
       /\ wh.calls[n].op = "hold" => wh.calls[n].arg = "INVENTORY_OUT_OF_STOCK"
  /\ \A m \in 1..Len(wh.fulfillmentOrders) :
       LET fo == wh.fulfillmentOrders[m]
       IN  (m < wh.k \/ WebhookHeld(fo.id))
           => (WebhookHeld(fo.id)
                 <=> (fo.location = wh.targetLocationId /\ fo.status = "OPEN"))
  /\ wh.pc = "done" /\ wh.fulfillmentOrders # <<>>
       => /\ wh.k > Len(wh.fulfillmentOrders)
          /\ wh.targetLocationId = config

C6_Witness ==
  /\ wh.pc = "done"
  /\ \E m \in 1..Len(wh.fulfillmentOrders) :
       WebhookHeld(wh.fulfillmentOrders[m].id)
  /\ \E m \in 1..Len(wh.fulfillmentOrders) :
       ~WebhookHeld(wh.fulfillmentOrders[m].id)

TagCalls == {n \in 1..Len(wh.calls) : wh.calls[n].op = "tagsAdd"}

(* C7: the webhook adds the tag at most once, as its last mutation, after  *)
(* it examined every fulfillment order, and with the marker tag; when it   *)
(* has returned, it has added the tag if and only if one of its holds      *)
(* answered without user errors.                                           *)
C7_WebhookTagsIffHoldApplied ==
  /\ Cardinality(TagCalls) <= 1
  /\ \A n \in TagCalls :
       /\ n = Len(wh.calls)
       /\ wh.k > Len(wh.fulfillmentOrders)
       /\ wh.calls[n].arg = MarkerTag
       /\ wh.calls[n].order = wh.payloadId
  /\ wh.pc = "done"
       => (TagCalls # {}
            <=> \E n \in 1..Len(wh.calls) :
                  wh.calls[n].op = "hold" /\ wh.calls[n].out = "ok")

C7_Witness ==
  /\ wh.pc = "done"
  /\ TagCalls # {}
  /\ \E n \in 1..Len(wh.calls) :
       wh.calls[n].op = "hold" /\ wh.calls[n].out = "userErrors"
  /\ MarkerTag \in tags[wh.payloadId]

(* the orders with a split that was applied and a re-hold that answered *)
SplitOrders ==
  {rel.calls[n].order : n \in {m \in 2..Len(rel.calls) :
      /\ rel.calls[m].op = "hold" /\ rel.calls[m].out # "throw"
      /\ rel.calls[m - 1].op = "split" /\ rel.calls[m - 1].out = "ok"}}

(* a targeted order past which the loop has gone, whose held fulfillment   *)
(* order has no line whose title contains the filter text                  *)
ZeroMatch(k) ==
  /\ Passed3(k)
  /\ Targeted(rel.holdData[k].id)
  /\ HeldOf(k).id # 0
  /\ Matched(k) = {}

(* C8: a zero-match order receives no mutation and is neither in the       *)
(* tag-check set nor in the released names; the released count is the size *)
(* of the tag-check set and the split count is the number of split orders, *)
(* so the order adds to neither.                                           *)
C8_ZeroMatchSkipped ==
  \A k \in 1..Len(rel.holdData) :
    ZeroMatch(k) =>
      LET o == rel.holdData[k].id
      IN  /\ \A n \in 1..Len(rel.calls) : rel.calls[n].order # o
          /\ o \notin Range(rel.ordersToCheckForTagRemoval)
          /\ rel.holdData[k].name \notin Range(rel.releasedOrderNames)
          /\ rel.releasedCount = Len(rel.ordersToCheckForTagRemoval)
          /\ rev = "audit" => /\ rel.splitCount = Cardinality(SplitOrders)
                              /\ Len(rel.releasedOrderNames) = rel.releasedCount

C8_Witness ==
  /\ rel.pc = "done"
  /\ rel.releasedCount = 1
  /\ \E k \in 1..Len(rel.holdData) : ZeroMatch(k)


(* a targeted order past which the loop has gone, held, with every line of *)
(* the held fulfillment order matching the filter (an empty filter matches *)
(* every line)                                                             *)
AllMatch(k) ==
  /\ Passed3(k)
  /\ Targeted(rel.holdData[k].id)
  /\ HeldOf(k).id # 0
  /\ Matched(k) = Range(HeldOf(k).lineItems)

(* what the action did for the order at position k is a full release: one  *)
(* release-hold on the held fulfillment order, the order counted once and  *)
(* put in the tag-check set, no split counted                              *)
FullyReleased(k) ==
  LET o  == rel.holdData[k].id
      cs == CallsFor(o)
  IN  /\ Ops(cs) = <<"releaseHold">>
      /\ cs[1].fo = HeldOf(k).id
      /\ o \in Range(rel.ordersToCheckForTagRemoval)
      /\ o \notin SplitOrders
      /\ rel.releasedCount = Len(rel.ordersToCheckForTagRemoval)
      /\ rev = "audit" => rel.splitCount = Cardinality(SplitOrders)
      /\ cs[1].out = "ok" => fos[cs[1].fo].lines = HeldOf(k).lineItems

(* C9: for an order whose held fulfillment order has every line matching,  *)
(* the lines chosen and the branch taken are those of the empty filter,    *)
(* and what the action did for the order is the full release that the      *)
(* empty filter produces.                                                  *)
C9_FilterMatchingAllIsNoFilter ==
  \A k \in 1..Len(rel.holdData) :
    AllMatch(k) =>
      /\ LinesToRelease(HeldOf(k).lineItems, rel.filterText)
           = LinesToRelease(HeldOf(k).lineItems, Empty)
      /\ IsPartialRelease(LinesToRelease(HeldOf(k).lineItems, rel.filterText),
                          HeldOf(k).lineItems)
           = IsPartialRelease(LinesToRelease(HeldOf(k).lineItems, Empty),
                              HeldOf(k).lineItems)
      /\ FullyReleased(k)

C9_Witness ==
  /\ rel.pc = "done"
  /\ rel.filterText # Empty
  /\ \E k \in 1..Len(rel.holdData) :
       /\ AllMatch(k) /\ Len(HeldOf(k).lineItems) = 2 /\ FullyReleased(k)
       /\ fos[HeldOf(k).id].status = "OPEN"

----------------------------------------------------------------------------
(* no location is configured: no row, or a row with an empty location id *)
NoLocation == config = NoRow \/ config = ""

(* C11: with no location configured, neither the webhook nor the release   *)
(* action issues a platform mutation, appends an audit entry or fails: the *)
(* handler records hold no call and no failure, and the audit log ends     *)
(* with the SETTINGS entry of the save that emptied the location, if any.  *)
C11_NoLocationNoOp ==
  NoLocation =>
    /\ wh.calls = <<>> /\ wh.pc # "failed"
    /\ rel.calls = <<>> /\ rel.pc # "failed"
    /\ audit = <<>> \/ audit[Len(audit)].action = "SETTINGS"

(* C12: a mutation call of a release action that fails outright is the     *)
(* last call the action issues (no later order is touched, nothing is      *)
(* compensated), the action has ended as a failure, not with a success     *)
(* status, and the holds it released before stay released.                 *)
C12_AbortOnOutrightFailure ==
  \A n \in 1..Len(rel.calls) :
    rel.calls[n].out = "throw" =>
      /\ n = Len(rel.calls)
      /\ rel.pc = "failed"
      /\ rel.status = "error"
      /\ \A m \in 1..(n - 1) :
           (rel.calls[m].op = "releaseHold" /\ rel.calls[m].out = "ok"
              /\ rel.calls[m].order # rel.calls[n].order)
             => fos[rel.calls[m].fo].status = "OPEN"

C12_Witness ==
  /\ rel.pc = "failed"
  /\ Len(rel.calls) = 2
  /\ rel.calls[1].op = "releaseHold" /\ rel.calls[1].out = "ok"
  /\ rel.calls[2].out = "throw"
  /\ rel.calls[1].order # rel.calls[2].order
  /\ rel.targetOrderIds = Orders

(* the step in which the release action decides to remove the tag of order *)
(* o: the verification re-query that finds no hold (part_003, part_002),   *)
(* or the tagsRemove call itself where there is no re-query (app._index)   *)
DecidesUntag(o) ==
  \/ /\ rel.pc = "cleanup" /\ rel'.pc = "untag"
     /\ rel.ordersToCheckForTagRemoval[rel.j] = o
  \/ /\ rev = "index"
     /\ Len(rel'.calls) = Len(rel.calls) + 1
     /\ rel'.calls[Len(rel'.calls)].op = "tagsRemove"
     /\ rel'.calls[Len(rel'.calls)].order = o

(* every hold release the action issued for order o was applied *)
ReleasedByAction(o) ==
  /\ \E n \in 1..Len(rel.calls) :
       rel.calls[n].order = o /\ rel.calls[n].op = "releaseHold"
  /\ \A n \in 1..Len(rel.calls) :
       (rel.calls[n].order = o /\ rel.calls[n].op = "releaseHold")
         => rel.calls[n].out = "ok"

(* C13: when a release action that released the hold of an order decides   *)
(* whether to remove the order's marker tag, and a fulfillment order of    *)
(* the order is ON_HOLD at the target location at that moment (put there   *)
(* by another actor since the release), it does not remove the tag.        *)
C13_TagKeptUnderConcurrentHold ==
  [][\A o \in Orders :
       (DecidesUntag(o) /\ ReleasedByAction(o))
         => ~HeldAt(o, rel.targetLocationId)]_vars

(* C14: in every state with no action in flight, all platform mutations so *)
(* far having been applied, an order carries the marker tag if and only if *)
(* one of its fulfillment orders is ON_HOLD at the configured location.    *)
C14_GlobalTagInvariant ==
  (Quiescent /\ ~faulted) =>
    \A o \in Orders : (MarkerTag \in tags[o]) <=> HeldAt(o, config)

(* Order A of the scenarios is order 1 (#1001): one fulfillment order, at  *)
(* L1, with Widget and Gadget.  The scenario starts from the initial state *)
(* in which L1 is configured and A is held and tagged, and consists of one *)
(* release action at L1 that targets A, returned with every mutation       *)
(* applied.  The filter is the given text in any letter case, which the    *)
(* action lower-cases before it compares.                                  *)
ScenarioDone(filterText) ==
  /\ runs = 1
  /\ config = "L1"
  /\ rel.pc = "done"
  /\ rel.status = "success"
  /\ ~faulted
  /\ rel.targetLocationId = "L1"
  /\ toLowerCase(rel.filterText) = toLowerCase(filterText)
  /\ rel.holdData # <<>>
  /\ rel.holdData[1].fulfillmentOrders[1].status = "ON_HOLD"
  /\ 1 \in rel.targetOrderIds \/ rel.intent = "release_all"

(* C15: after the full-release scenario (empty filter) the fulfillment     *)
(* order of A is not on hold, A does not carry the marker tag and, in the  *)
(* revision that keeps an audit log, the log holds exactly one entry, of   *)
(* kind RELEASE, whose description names A.                                *)
C15_FullReleaseScenario ==
  ScenarioDone(Empty) =>
    /\ fos[1].status # "ON_HOLD"
    /\ MarkerTag \notin tags[1]
    /\ rev = "audit" =>
         /\ Len(audit) = 1
         /\ audit[1].action = "RELEASE"
         /\ OrderName[1] \in Range(audit[1].description[3])

(* C16: after the split-release scenario (filter "Widget") there is a new  *)
(* fulfillment order of A holding exactly Widget that is not on hold, the  *)
(* original one holds exactly Gadget and is ON_HOLD, A carries the marker  *)
(* tag and, in the revision that keeps an audit log, the appended entry    *)
(* has kind SPLIT_RELEASE.                                                 *)
C16_SplitReleaseScenario ==
  ScenarioDone(Widget) =>
    /\ \E f \in 1..Len(fos) :
         /\ f # 1
         /\ fos[f].order = 1
         /\ fos[f].lines = <<1>>
         /\ fos[f].status # "ON_HOLD"
    /\ fos[1].lines = <<2>>
    /\ fos[1].status = "ON_HOLD"
    /\ MarkerTag \in tags[1]
    /\ rev = "audit" =>
         /\ Len(audit) = 1
         /\ audit[1].action = "SPLIT_RELEASE"

C16_Witness ==
  /\ ScenarioDone(Widget)
  /\ rev = "audit"
  /\ Len(fos) = 4
  /\ rel.splitCount = 1

(* the record r is that of a release action (a save fetches no orders) *)
IsRelease(r) == r.holdData # <<>>

(* the release action whose record is r went through its counting step for *)
(* order o: a single release-hold that returned (full release), or a split *)
(* that was applied, followed by the hold on the original                  *)
CountedOrder(r, o) ==
  LET cs == Pick(r.calls, o, 1)
  IN  \/ Ops(cs) = <<"releaseHold">> /\ cs[1].out # "throw"
      \/ /\ Ops(cs) = <<"releaseHold", "split", "hold">>
         /\ cs[2].out = "ok"
         /\ cs[3].out # "throw"

(* display names of the counted orders, in the order of the fetched batch *)
CountedNames(r) ==
  LET sel == SelectSeq(r.holdData, LAMBDA d : CountedOrder(r, d.id))
  IN  [k \in 1..Len(sel) |-> sel[k].name]

WasSplit(r) ==
  \E n \in 1..Len(r.calls) : r.calls[n].op = "split" /\ r.calls[n].out = "ok"

(* C17: in the revision with the audit log, a release action appends an    *)
(* audit entry only in one step, taken after its release loop and its tag  *)
(* checks are over and not repeated; the entry has kind SPLIT_RELEASE if   *)
(* an order of the batch was split and RELEASE otherwise, and lists the    *)
(* display names of the orders counted as released, in processing order;   *)
(* a release action that has returned has appended its entry.              *)
C17_OneAuditEntryPerRelease ==
  [][/\ (audit' # audit /\ IsRelease(rel'))
        => /\ rel.pc = "cleanup" /\ rel'.pc = "return"
           /\ rel.i > Len(rel.holdData)
           /\ rel.j > Len(rel.ordersToCheckForTagRemoval)
           /\ Len(audit') = Len(audit) + 1
           /\ SubSeq(audit', 1, Len(audit)) = audit
           /\ audit'[Len(audit')].action =
                IF WasSplit(rel) THEN "SPLIT_RELEASE" ELSE "RELEASE"
           /\ audit'[Len(audit')].description[3] = CountedNames(rel)
     /\ (rev = "audit" /\ IsRelease(rel) /\ rel.pc = "return" /\ rel'.pc = "done")
        => /\ audit' = audit
           /\ audit # <<>>
           /\ audit[Len(audit)].action \in {"RELEASE", "SPLIT_RELEASE"}
           /\ audit[Len(audit)].description[3] = CountedNames(rel')
     /\ (rev = "audit" /\ IsRelease(rel') /\ rel'.pc = "done")
        => rel.pc \in {"return", "done"}]_vars

C17_Witness ==
  /\ rev = "audit"
  /\ rel.pc = "done"
  /\ audit # <<>>
  /\ audit[Len(audit)].action = "SPLIT_RELEASE"
  /\ audit[Len(audit)].description[3] = <<OrderName[1]>>
  /\ rel.targetOrderIds = Orders

(* the release action released order o: a release-hold for it was applied  *)
(* and, where only part of the lines matched, so was the split             *)
ReleasedFully(o) ==
  LET cs == CallsFor(o)
  IN  /\ cs # <<>>
      /\ \A n \in 1..Len(cs) : cs[n].op = "releaseHold"
      /\ \E n \in 1..Len(cs) : cs[n].out = "ok"

ReleasedPartially(o) ==
  LET cs == CallsFor(o)
  IN  /\ Len(cs) >= 2
      /\ cs[1].op = "releaseHold" /\ cs[1].out = "ok"
      /\ cs[2].op = "split" /\ cs[2].out = "ok"

ReleasedOrders == {o \in Orders : ReleasedFully(o) \/ ReleasedPartially(o)}

(* C18: the count a returned release action reports is the number of       *)
(* distinct orders it released, fully or partially with a split that was   *)
(* applied, and the split count (part_002) is the number of those released *)
(* partially; an order counts once however many of its fulfillment orders  *)
(* were on hold.                                                           *)
C18_CountIsReleasedOrders ==
  (IsRelease(rel) /\ rel.pc = "done")
    => /\ rel.count = Cardinality(ReleasedOrders)
       /\ rev = "audit" =>
            rel.splitCount = Cardinality({o \in Orders : ReleasedPartially(o)})

(* the query of the loader returned fulfillment order f: its order is in   *)
(* the page of orders and f is within the page of that order's             *)
(* fulfillment orders                                                      *)
FetchedByLoader(f) ==
  /\ fos[f].order <= LoaderOrdersFirst
  /\ Cardinality({g \in 1..f : fos[g].order = fos[f].order})
       <= LoaderFulfillmentOrdersFirst(rev)

(* C19: the list the loader returned holds an order if and only if one of  *)
(* the order's fulfillment orders that the query fetched is assigned to    *)
(* the saved location and ON_HOLD; no order is listed twice; with no saved *)
(* location the list is empty and no order query was issued.               *)
C19_HeldOrderView ==
  view.loaded =>
    IF config = NoRow \/ config = ""
    THEN view.heldOrders = <<>> /\ ~view.queried
    ELSE /\ view.queried
         /\ \A o \in Orders :
              (o \in Range(view.heldOrders))
                <=> \E f \in 1..Len(fos) :
                      /\ fos[f].order = o
                      /\ FetchedByLoader(f)
                      /\ fos[f].loc = config
                      /\ fos[f].status = "ON_HOLD"
         /\ Cardinality(Range(view.heldOrders)) = Len(view.heldOrders)

(* C19 as worded: listed if and only if any fulfillment order of the order *)
(* is assigned to the saved location and ON_HOLD, fetched or not           *)
C19_AnyFulfillmentOrder ==
  (view.loaded /\ view.queried) =>
    \A o \in Orders :
      (o \in Range(view.heldOrders))
        <=> (o <= LoaderOrdersFirst /\ HeldAt(o, config))

C19_Witness ==
  /\ view.loaded
  /\ config = "L1"
  /\ view.heldOrders = <<1, 2>>
  /\ Len(fos) > 3

(* C20: every release-hold, split and hold a release action issues is for  *)
(* a fulfillment order assigned to the location of the configuration       *)
(* record, which no step changes while the action runs.                    *)
C20_MutationsAtConfiguredLocation ==
  \A n \in 1..Len(rel.calls) :
    rel.calls[n].op \in {"releaseHold", "split", "hold"}
      => fos[rel.calls[n].fo].loc = config

(* the running action issues a call in this step *)
IssuesCall ==
  /\ rel2' = rel2
  /\ Len(rel'.calls) = Len(rel.calls) + 1
  /\ SubSeq(rel'.calls, 1, Len(rel.calls)) = rel.calls

(* C21: when a release action that has already processed an earlier order  *)
(* of its batch issues release-hold for a fulfillment order, that          *)
(* fulfillment order is ON_HOLD at that moment: one that stopped being     *)
(* ON_HOLD in the meantime receives no mutation.                           *)
C21_FreshReadPerOrder ==
  [][(/\ IssuesCall
      /\ rel.calls # <<>>
      /\ rel'.calls[Len(rel'.calls)].op = "releaseHold"
      /\ rel'.calls[Len(rel'.calls)].order # rel.calls[Len(rel.calls)].order)
       => fos[rel'.calls[Len(rel'.calls)].fo].status = "ON_HOLD"]_vars

(* the release action in flight released the hold of fulfillment order f   *)
(* and did not hold it again itself, or f was split off by it              *)
OperatorReleased(f) ==
  \/ \E n \in 1..Len(rel.calls) :
       /\ rel.calls[n].op = "releaseHold"
       /\ rel.calls[n].fo = f
       /\ rel.calls[n].out = "ok"
       /\ \A m \in (n + 1)..Len(rel.calls) :
            ~(rel.calls[m].op = "hold" /\ rel.calls[m].fo = f)
  \/ /\ f > Len(NewFos("L1"))
     /\ \E n \in 1..Len(rel.calls) :
          rel.calls[n].op = "split" /\ rel.calls[n].out = "ok"

(* the webhook issues a call in this step *)
WebhookIssuesCall ==
  /\ Len(wh'.calls) = Len(wh.calls) + 1
  /\ SubSeq(wh'.calls, 1, Len(wh.calls)) = wh.calls

(* C22: a delivery of the webhook issues no hold for a fulfillment order   *)
(* whose hold a release action released before, nor for one the action     *)
(* split off, and so adds no tag for it.                                   *)
C22_ReleasedNeverHeldAgain ==
  [][WebhookIssuesCall =>
       LET c == wh'.calls[Len(wh'.calls)]
       IN  /\ c.op = "hold" => ~OperatorReleased(c.fo)
           /\ c.op = "tagsAdd" =>
                \A n \in 1..Len(wh.calls) :
                  (wh.calls[n].op = "hold" /\ wh.calls[n].out = "ok")
                    => ~OperatorReleased(wh.calls[n].fo)]_vars

(* C23: after a release action with an empty filter that returned without  *)
(* any mutation error, no targeted order has a fulfillment order ON_HOLD at *)
(* the target location, however many of its fulfillment orders were on     *)
(* hold there.                                                             *)
C23_NothingLeftOnHold ==
  (CleanRelease /\ rel.filterText = Empty)
    => \A o \in Orders :
         Targeted(o) => ~HeldAt(o, rel.targetLocationId)

(* fulfillment order f, as it is now, has a line the filter does not match *)
HasUnmatchedLine(f) ==
  \E l \in Range(fos[f].lines) : ~TitleHas(l, rel.filterText)

(* C24: when a release action has ended, returned or aborted by a failed   *)
(* call, every fulfillment order it fetched ON_HOLD at the target location  *)
(* that still has a line the filter does not match is ON_HOLD.             *)
C24_UnmatchedStaysOnHold ==
  (IsRelease(rel) /\ rel.pc \in {"done", "failed"})
    => \A k \in 1..Len(rel.holdData) :
         \A f \in HeldSet(k) :
           HasUnmatchedLine(f) => fos[f].status = "ON_HOLD"

(* a release-hold the action issued for order o was applied *)
ReleaseTookEffect(o) ==
  \E n \in 1..Len(rel.calls) :
    /\ rel.calls[n].op = "releaseHold"
    /\ rel.calls[n].order = o
    /\ rel.calls[n].out = "ok"

(* C25: a release action puts an order in its tag-check set, names it in   *)
(* its audit entry and counts it only if a release-hold for the order was  *)
(* applied; the revision that removes tags without a re-check removes the  *)
(* tag only of such an order.                                              *)
C25_CountedOnlyIfReleased ==
  /\ \A o \in Range(rel.ordersToCheckForTagRemoval) : ReleaseTookEffect(o)
  /\ \A n \in 1..Len(rel.releasedOrderNames) :
       \E o \in Orders :
         OrderName[o] = rel.releasedOrderNames[n] /\ ReleaseTookEffect(o)
  /\ rev = "index" =>
       \A n \in 1..Len(rel.calls) :
         rel.calls[n].op = "tagsRemove" => ReleaseTookEffect(rel.calls[n].order)
  /\ (SplitRevision /\ rel.pc = "done") =>
       rel.count <= Cardinality({o \in Orders : ReleaseTookEffect(o)})

(* order o has a fulfillment order ON_HOLD at location l with a line the   *)
(* filter matches                                                          *)
HeldWithMatch(o, l) ==
  \E f \in 1..Len(fos) :
    /\ fos[f].order = o
    /\ fos[f].loc = l
    /\ fos[f].status = "ON_HOLD"
    /\ \E n \in Range(fos[f].lines) : TitleHas(n, rel.filterText)

(* the action fetched order o with a fulfillment order ON_HOLD at the      *)
(* target location                                                         *)
Examined(o) ==
  \E k \in 1..Len(rel.holdData) :
    rel.holdData[k].id = o /\ HeldSet(k) # {}

(* C26: on the shop it was fetched from, every order the loader lists that *)
(* the release action targets and that has an on-hold fulfillment order at *)
(* the location with a matching line is fetched by the action with an      *)
(* on-hold fulfillment order at the location.                              *)
C26_ViewAndActionAgree ==
  (view.loaded /\ IsRelease(rel) /\ rel.calls = <<>>
     /\ rel.targetLocationId = config)
    => \A o \in Range(view.heldOrders) :
         (Targeted(o) /\ HeldWithMatch(o, rel.targetLocationId))
           => Examined(o)

(* the fulfillment orders the action fetched ON_HOLD at the target         *)
(* location for order o                                                    *)
FetchedOnHold(o) ==
  UNION {HeldSet(k) : k \in {n \in 1..Len(rel.holdData) :
                               rel.holdData[n].id = o}}

(* C27: a step of a release action leaves the configuration record alone,  *)
(* adds no tag, changes the tags of targeted orders only and changes only  *)
(* fulfillment orders it fetched ON_HOLD at the target location for a      *)
(* targeted order (a split adds one of that order at that location); every *)
(* call it issues is a release-hold, split or hold on such a fulfillment   *)
(* order or a tagsRemove on a targeted order.                              *)
C27_ReleaseFrame ==
  [][(rel' # rel /\ IsRelease(rel) /\ IsRelease(rel'))
       => /\ config' = config
          /\ \A o \in Orders :
               /\ tags'[o] \subseteq tags[o]
               /\ tags'[o] # tags[o] => Targeted(o)
          /\ Len(fos') >= Len(fos)
          /\ \A f \in 1..Len(fos') :
               IF f <= Len(fos)
               THEN fos'[f] # fos[f] =>
                      /\ Targeted(fos[f].order)
                      /\ f \in FetchedOnHold(fos[f].order)
               ELSE /\ Targeted(fos'[f].order)
                    /\ fos'[f].loc = rel.targetLocationId
          /\ IssuesCall =>
               LET c == rel'.calls[Len(rel'.calls)]
               IN  /\ c.op \in {"releaseHold", "split", "hold", "tagsRemove"}
                   /\ Targeted(c.order)
                   /\ c.op # "tagsRemove" => c.fo \in FetchedOnHold(c.order)]_vars

(* a release action that targeted order 1 alone has split it and returned, *)
(* while order 2 is ON_HOLD at the same location                           *)
C27_Witness ==
  /\ rel.pc = "done"
  /\ rel.targetOrderIds = {1}
  /\ WasSplit(rel)
  /\ HeldAt(2, rel.targetLocationId)
  /\ MarkerTag \in tags[2]

(* the delivery fetched the order with fulfillment orders at the           *)
(* configured location, every one of them ON_HOLD                          *)
AlreadyHeld ==
  /\ \E k \in 1..Len(wh.fulfillmentOrders) :
       wh.fulfillmentOrders[k].location = wh.targetLocationId
  /\ \A k \in 1..Len(wh.fulfillmentOrders) :
       wh.fulfillmentOrders[k].location = wh.targetLocationId
         => wh.fulfillmentOrders[k].status = "ON_HOLD"

(* C28: a delivery of the webhook that fetched the order with its          *)
(* fulfillment orders at the configured location already ON_HOLD issues no *)
(* call in any of its steps and leaves fulfillment orders and tags as they *)
(* are.                                                                    *)
C28_WebhookIdempotent ==
  [][(wh' # wh /\ wh.pc \in {"loop", "return"} /\ AlreadyHeld)
       => /\ fos' = fos
          /\ tags' = tags
          /\ wh'.calls = <<>>
          /\ wh'.pc \in {"loop", "done"}]_vars

(* in the revision that releases one fulfillment order per order, the      *)
(* second of two deliveries for order 1 has returned without a call: the   *)
(* first one held and tagged it, order 2 is still new                      *)
C28_Witness ==
  /\ rev = "split"
  /\ runs = 2
  /\ wh.pc = "done"
  /\ wh.payloadId = 1
  /\ wh.calls = <<>>
  /\ AlreadyHeld
  /\ fos[1].status = "ON_HOLD"
  /\ MarkerTag \in tags[1]
  /\ tags[2] = {}
  /\ \A f \in {2, 3} : fos[f].loc = "L1" /\ fos[f].status = "OPEN"

(* the release action whose record is r has counted order o: it ran the    *)
(* counting step of its loop for o (part_003 lines 269-270, 283-284), or,  *)
(* in app._index.jsx, returned the count of the batch o is part of         *)
CountedBy(r, o) ==
  \/ o \in Range(r.ordersToCheckForTagRemoval)
  \/ /\ rev = "index"
     /\ r.pc = "done"
     /\ r.status = "success"
     /\ o \in Range(r.orderIdsToClean)

(* C29: of two release actions in flight at the same time, at most one     *)
(* counts a given order.                                                   *)
C29_CountedByOneAction ==
  \A o \in Orders : ~(CountedBy(rel, o) /\ CountedBy(rel2, o))

(* C30: every tagsRemove call of a release action passes the tag the       *)
(* webhook passes to tagsAdd, and one that was applied leaves the order    *)
(* without the marker tag.                                                 *)
C30_RemovesTheMarkerTag ==
  \A n \in 1..Len(rel.calls) :
    rel.calls[n].op = "tagsRemove"
      => /\ rel.calls[n].arg = MarkerTag
         /\ (rel.calls[n].out = "ok" /\ n = Len(rel.calls))
              => MarkerTag \notin tags[rel.calls[n].order]

====
